---- MODULE Spec2Model ----
(***************************************************************************)
(* IntelliDocs: the retrieval and chunking engine of                        *)
(* services/rag_service.py (class IntelliDocsRAG).                          *)
(*                                                                          *)
(* Texts are sequences of one-character strings.  Python positions are      *)
(* 0-based and slices are half open; Slice converts.                        *)
(***************************************************************************)
EXTENDS Integers, Sequences, FiniteSets, TLC

VARIABLES
    \* split_text (rag_service.py:220-255), one loop iteration per step
    text, chunk_size, overlap, start, chunks, spans, split_pc,
    \* IntelliDocsRAG fields
    documents, embeddings, embedding_model,
    \* process_document: position and locals
    pc, file, pd_chunks, i, chunks_added, embedding, warned, entry_len,
    \* chunk counts reported by the successful uploads, per file name
    reported,
    \* the value the last completed call returned
    ret,
    \* a second thread that calls the read methods of the same object
    reader,
    \* the sidebar: the files staged in the uploader, the number of them the
    \* current render has passed to process_document, the renders finished
    staged, cursor, renders

splitvars == <<text, chunk_size, overlap, start, chunks, spans, split_pc>>

locals == <<file, pd_chunks, i, chunks_added, embedding, warned, entry_len>>

mainvars == <<documents, embeddings, embedding_model, pc, file, pd_chunks,
              i, chunks_added, embedding, warned, entry_len, reported, ret>>

callers == <<reader, staged, cursor, renders>>

vars == <<text, chunk_size, overlap, start, chunks, spans, split_pc,
          documents, embeddings, embedding_model, pc, file, pd_chunks,
          i, chunks_added, embedding, warned, entry_len, reported, ret,
          reader, staged, cursor, renders>>

\* ------------------------------------------------------------------ bounds

\* longest text handed to split_text in SplitSpec
MaxLen == 5

\* process_document is not called once the index holds this many chunks
MaxDocs == 4

\* with a second thread running: no upload starts once this many are stored
MaxConcDocs == 3

\* the sidebar is rendered at most this many times
MaxRenders == 3

\* ------------------------------------------------------- string helpers

Min(S) == CHOOSE x \in S : \A y \in S : x <= y

Max(S) == CHOOSE x \in S : \A y \in S : x >= y

\* the characters str.strip() removes that occur in the modelled texts
Whitespace == {" ", "\n", "\t"}

\* Python s[a:b] for 0 <= a, b (b clamped to len(s))
Slice(s, a, b) == SubSeq(s, a + 1, IF b > Len(s) THEN Len(s) ELSE b)

\* the first and the last position strip() keeps (s is not all whitespace)
FirstKept(s) ==
    CHOOSE p \in 1..Len(s) :
        s[p] \notin Whitespace /\ \A q \in 1..(p - 1) : s[q] \in Whitespace

LastKept(s) ==
    CHOOSE p \in 1..Len(s) :
        s[p] \notin Whitespace /\ \A q \in (p + 1)..Len(s) : s[q] \in Whitespace

\* Python s.strip()
\* rstrip(): only the trailing whitespace goes
StripRight(s) ==
    IF \A p \in 1..Len(s) : s[p] \in Whitespace THEN <<>>
    ELSE SubSeq(s, 1, LastKept(s))

Strip(s) ==
    IF \A p \in 1..Len(s) : s[p] \in Whitespace THEN <<>>
    ELSE SubSeq(s, FirstKept(s), LastKept(s))

\* Python s.rfind(b): the highest 0-based position where b occurs, else -1
RFind(s, b) ==
    LET hits == {p \in 0..(Len(s) - Len(b)) : SubSeq(s, p + 1, p + Len(b)) = b}
    IN  IF hits = {} THEN -1 ELSE Max(hits)

\* ------------------------------------------------------------ split_text

\* the boundary markers, in the order the loop tries them
Boundaries == << <<".", " ">>, <<".", "\n">>, <<"!", "\n">>, <<"?", "\n">> >>

\* end = start + chunk_size, clamped to the text length
ProposedEnd(t, st, size) == IF st + size > Len(t) THEN Len(t) ELSE st + size

\* boundary_pos > chunk_size * 0.7, in integers; for the chunk sizes used
\* here (1, 2, 10, 11, 800) the float product compares with every integer
\* as the exact product does (10 * 0.7 is 7.0, 800 * 0.7 is 560.0)
PastThreshold(boundary_pos, size) == boundary_pos * 10 > size * 7

\* the first boundary (in list order) whose last occurrence in the window
\* passes the threshold; 0 when none does
AcceptedBoundary(chunk, size) ==
    LET ok == {k \in 1..Len(Boundaries) :
                 PastThreshold(RFind(chunk, Boundaries[k]), size)}
    IN  IF ok = {} THEN 0 ELSE Min(ok)

\* chunk and actual_end of the window that starts at st (lines 227-242)
Window(t, st, size) ==
    LET end   == ProposedEnd(t, st, size)
        chunk == Slice(t, st, end)
        k     == AcceptedBoundary(chunk, size)
        cut   == RFind(chunk, Boundaries[k]) + Len(Boundaries[k])
    IN  IF end < Len(t) /\ k # 0
        THEN [chunk |-> Slice(chunk, 0, cut), actual_end |-> st + cut]
        ELSE [chunk |-> chunk, actual_end |-> end]

\* the next window start one position late
NextStartSkipping(st, actual_end, ov) == actual_end + 1

\* start = actual_end - overlap; if start <= start or start < 0: start = actual_end
\* (the comparison reads the variable just assigned)
NextStart(st, actual_end, ov) ==
    LET s == actual_end - ov
    IN  IF s <= s \/ s < 0 THEN actual_end ELSE s

\* where chunk.strip() lies in the text, for a chunk cut at position st:
\* the 1-based positions of its first and last character
StrippedSpan(st, chunk) ==
    [lo |-> st + FirstKept(chunk), hi |-> st + LastKept(chunk)]

\* return [chunk for chunk in chunks if chunk.strip()]
NonBlank(cs) == SelectSeq(cs, LAMBDA c : Strip(c) # <<>>)

\* the whole of split_text, as process_document calls it
RECURSIVE SplitFrom(_, _, _, _, _)
SplitFrom(t, size, ov, st, acc) ==
    IF st >= Len(t) THEN NonBlank(acc)
    ELSE LET w == Window(t, st, size)
             c == Strip(w.chunk)
         IN  SplitFrom(t, size, ov, NextStart(st, w.actual_end, ov),
                       IF c # <<>> THEN Append(acc, c) ELSE acc)

SplitText(t, size, ov) == SplitFrom(t, size, ov, 0, <<>>)


\* ------------------------------------------------------------- the corpus

Rep(c, n) == [k \in 1..n |-> c]

\* program constants: self.split_text(text, chunk_size=800, overlap=100)
DocChunkSize == 800

DocOverlap == 100

\* 902 characters: a sentence end at position 600, past 70% of the first window
LongText == Rep("a", 600) \o <<".", " ">> \o Rep("b", 300)

ShortText == <<" ", "c", ".", "\n">>

BlankText == <<" ", "\n">>

\* an uploaded file: its name, its declared type, and what the extractor for
\* that type makes of its bytes (a text, or an exception)
LongFile == [name |-> "A.txt",  type |-> "txt",  readable |-> TRUE,  content |-> LongText]

Files ==
    { LongFile,
      [name |-> "B.txt",  type |-> "txt",  readable |-> TRUE,  content |-> ShortText],
      [name |-> "C.pdf",  type |-> "PDF",  readable |-> FALSE, content |-> <<>>],
      [name |-> "D.docx", type |-> "docx", readable |-> TRUE,  content |-> BlankText],
      [name |-> "E.exe",  type |-> "exe",  readable |-> TRUE,  content |-> ShortText] }

Names == {f.name : f \in Files}

\* the names previews are asked for; C.pdf is never indexed
PreviewNames == {"A.txt", "B.txt", "C.pdf"}

NoFile == [name |-> "", type |-> ""]

\* file_type.lower()
Lower(t) == IF t = "PDF" THEN "pdf" ELSE t

\* the query strings tried
QueryTexts == {<<"q">>}

\* chunks = self.split_text(text, chunk_size=800, overlap=100), per file
FileSplit == [f \in Files |-> SplitText(f.content, DocChunkSize, DocOverlap)]

\* every text the embedding model may be asked about.  A text is held in the
\* state as its number in TextTable (two texts are equal iff their numbers are)
AllTexts ==
    QueryTexts \cup UNION {{FileSplit[f][k] : k \in 1..Len(FileSplit[f])} : f \in Files}

TextTable ==
    CHOOSE s \in [1..Cardinality(AllTexts) -> AllTexts] :
        \A t \in AllTexts : \E k \in 1..Cardinality(AllTexts) : s[k] = t

Intern(t) == CHOOSE k \in 1..Cardinality(AllTexts) : TextTable[k] = t

TextOf(k) == TextTable[k]

Queries == {Intern(q) : q \in QueryTexts}

\* n_results values tried
TopKs == {-1, 0, 1, 2, 3}

\* max_chars values tried (2000 is the default of get_document_preview)
MaxCharsChoices == {5, 2000}

\* ------------------------------------------------------------ embeddings

\* the vectors the embedding models answer; <<0, 0>> is a degenerate one
Vectors == {<<1, 0>>, <<1, 1>>, <<0, 1>>, <<0, 0>>}

\* self.embedding_model is None (load_embedding_model failed)
None == <<>>

\* an embedding model is a function of the text: the vectors it answers for
\* the two chunks of LongText, the chunk of ShortText and the query
Model(a1, a2, b, q) ==
    [k \in 1..Cardinality(AllTexts) |->
        IF      TextOf(k) = FileSplit[LongFile][1] THEN a1
        ELSE IF TextOf(k) = FileSplit[LongFile][2] THEN a2
        ELSE IF TextOf(k) \in QueryTexts THEN q
        ELSE b]

\* the models tried: all similarities different; a degenerate stored vector;
\* two texts with one vector; a degenerate query vector
Models ==
    { Model(<<1, 0>>, <<1, 1>>, <<0, 1>>, <<1, 0>>),
      Model(<<0, 0>>, <<1, 0>>, <<1, 1>>, <<1, 0>>),
      Model(<<1, 1>>, <<1, 1>>, <<1, 0>>, <<1, 0>>),
      Model(<<1, 0>>, <<0, 0>>, <<1, 1>>, <<0, 0>>) }

NoVector == <<>>

Dot(u, v) == u[1] * v[1] + u[2] * v[2]

\* a similarity value: NaN, or the sign and square of the cosine as a fraction
\* (order-isomorphic to the cosine itself)
NaN == [nan |-> TRUE, num |-> 0, den |-> 1]

Sgn(x) == IF x > 0 THEN 1 ELSE IF x < 0 THEN -1 ELSE 0

\* np.dot(q, d) / (np.linalg.norm(q) * np.linalg.norm(d)); 0.0 / 0.0 is nan
Cosine(q, d) ==
    IF Dot(q, q) * Dot(d, d) = 0 THEN NaN
    ELSE [nan |-> FALSE, num |-> Sgn(Dot(q, d)) * Dot(q, d) * Dot(q, d),
          den |-> Dot(q, q) * Dot(d, d)]

\* x <= y in the order numpy sorts floats: nan after every number
SortsBefore(x, y) == y.nan \/ (~x.nan /\ x.num * y.den <= y.num * x.den)

\* the positions in S whose value sorts before every other value of S
Lowest(values, S) == {m \in S : \A x \in S : SortsBefore(values[m], values[x])}

\* the ascending orders of the positions in S
RECURSIVE SortedOrders(_, _)
SortedOrders(values, S) ==
    IF S = {} THEN {<<>>}
    ELSE UNION {{<<m>> \o rest : rest \in SortedOrders(values, S \ {m})} :
                 m \in Lowest(values, S)}

\* np.argsort(values): an index order that sorts the values ascending; the
\* default sort kind is not stable, so equal values come in any order
ArgSorts(values) == SortedOrders(values, 1..Len(values))

\* Python seq[k:]
SliceFrom(s, k) ==
    LET n    == Len(s)
        from == IF k < 0 THEN (IF n + k < 0 THEN 0 ELSE n + k)
                         ELSE (IF k > n THEN n ELSE k)
    IN  SubSeq(s, from + 1, n)

\* Python seq[::-1]
Reverse(s) == [k \in 1..Len(s) |-> s[Len(s) + 1 - k]]

\* np.argsort(similarities)[-n_results:][::-1], for one argsort answer
TopIndices(order, n_results) == Reverse(SliceFrom(order, -n_results))

\* what encode([t]) may do now: raise, or answer the model's vector for t
Raises == <<"raises">>

EncodeOutcomes(t) == {Raises, embedding_model[t]}

\* ---------------------------------------------------------------- Init

SplitIdle ==
    /\ text = <<>>
    /\ chunk_size = 1
    /\ overlap = 0
    /\ start = 0
    /\ chunks = <<>>
    /\ spans = <<>>
    /\ split_pc = "done"

NoReturn == [op |-> "none"]

\* IntelliDocsRAG.__init__ followed by initialize_vectordb (app.py:35-37)
MainInit ==
    /\ documents = <<>>
    /\ embeddings = <<>>
    /\ embedding_model \in {None} \cup Models
    /\ pc = "idle"
    /\ file = NoFile
    /\ pd_chunks = <<>>
    /\ i = 0
    /\ chunks_added = 0
    /\ embedding = NoVector
    /\ warned = {}
    /\ entry_len = 0
    /\ reported = [n \in Names |-> 0]
    /\ ret = NoReturn

\* no second thread is in a call and the sidebar holds no file
ReaderIdle == [pc |-> "idle"]

CallersIdle ==
    /\ reader = ReaderIdle
    /\ staged = <<>>
    /\ cursor = 0
    /\ renders = 0

Init == MainInit /\ SplitIdle /\ CallersIdle

\* ---- split_text as a state machine (SplitSpec)

Alphabet == {"a", ".", " ", "\n"}

RECURSIVE TextsOfLen(_)
TextsOfLen(n) ==
    IF n = 0 THEN {<<>>}
    ELSE {Append(t, c) : t \in TextsOfLen(n - 1), c \in Alphabet}

\* seven characters without a marker: a marker that follows them lies at
\* position 7 or later, around 70% of the chunk sizes 10 and 11
Stem == <<"a", "a", "a", "a", "a", "a", "a">>

\* the texts tried: every text of at most MaxLen characters, and the Stem
\* followed by every text of MaxLen characters
Texts ==
    UNION {TextsOfLen(n) : n \in 0..MaxLen} \cup {Stem \o t : t \in TextsOfLen(MaxLen)}

\* chunk sizes tried; 11 is the smallest size at which a two-character marker
\* can pass the 70% threshold and still end the chunk before the full window
ChunkSizes == {1, 2, 10, 11}

\* overlaps tried for a chunk size: none, one, and the largest allowed
Overlaps(size) == {0, 1, size - 1} \cap 0..(size - 1)

SplitInit ==
    /\ text \in Texts
    /\ chunk_size \in ChunkSizes
    /\ overlap \in Overlaps(chunk_size)
    /\ start = 0
    /\ chunks = <<>>
    /\ spans = <<>>
    /\ split_pc = "loop"
    /\ MainInit
    /\ embedding_model = None
    /\ CallersIdle

\* the iteration without the fallback of the start to actual_end
SplitIterUnguarded ==
    /\ split_pc = "loop"
    /\ start < Len(text)
    /\ LET w == Window(text, start, chunk_size)
           c == Strip(w.chunk)
       IN  /\ chunks' = IF c # <<>> THEN Append(chunks, c) ELSE chunks
           /\ spans'  = IF c # <<>> THEN Append(spans, StrippedSpan(start, w.chunk))
                                    ELSE spans
           /\ start'  = w.actual_end - overlap
    /\ UNCHANGED <<text, chunk_size, overlap, split_pc>>
    /\ UNCHANGED mainvars
    /\ UNCHANGED callers

\* one iteration of `while start < text_length`
SplitIter ==
    /\ split_pc = "loop"
    /\ start < Len(text)
    /\ LET w == Window(text, start, chunk_size)
           c == Strip(w.chunk)
       IN  /\ chunks' = IF c # <<>> THEN Append(chunks, c) ELSE chunks
           /\ spans'  = IF c # <<>> THEN Append(spans, StrippedSpan(start, w.chunk))
                                    ELSE spans
           /\ start'  = NextStart(start, w.actual_end, overlap)
    /\ UNCHANGED <<text, chunk_size, overlap, split_pc>>
    /\ UNCHANGED mainvars
    /\ UNCHANGED callers

\* the loop ends (while condition or break) and the list is returned
SplitReturn ==
    /\ split_pc = "loop"
    /\ start >= Len(text)
    /\ chunks' = NonBlank(chunks)
    /\ split_pc' = "done"
    /\ UNCHANGED <<text, chunk_size, overlap, start, spans>>
    /\ UNCHANGED mainvars
    /\ UNCHANGED callers

SplitNext == SplitIter \/ SplitReturn

SplitSpec == SplitInit /\ [][SplitNext]_vars

\* ------------------------------------------------------ process_document

SupportedTypes == {"pdf", "docx", "txt"}

FailureReasons ==
    { "Unsupported file type", "Error processing document",
      "No text content found in document", "No chunks created from document",
      "Embedding model not available" }

\* not text or not text.strip(), per file
FileBlank == [f \in Files |-> f.content = <<>> \/ Strip(f.content) = <<>>]

\* the chunk list of each file, as text numbers
FileChunks == [f \in Files |-> [k \in 1..Len(FileSplit[f]) |-> Intern(FileSplit[f][k])]]

\* the early return (or the exception caught at line 143) that ends the call
\* before the chunk loop; "" when the call reaches the loop
Rejection(f) ==
    IF Lower(f.type) \notin SupportedTypes THEN "Unsupported file type"
    ELSE IF ~f.readable THEN "Error processing document"
    ELSE IF FileBlank[f] THEN "No text content found in document"
    ELSE IF FileChunks[f] = <<>> THEN "No chunks created from document"
    ELSE IF embedding_model = None THEN "Embedding model not available"
    ELSE ""

Failure(reason) == [op |-> "process_document", ok |-> FALSE, msg |-> reason, count |-> 0]

Success(n) ==
    [op |-> "process_document", ok |-> TRUE,
     msg |-> "Successfully processed chunks", count |-> n]

\* the dict appended to self.documents for chunk number k (0-based) of file f
Entry(f, k, chunk) ==
    [text |-> chunk, source |-> f.name, chunk_id |-> k, id |-> <<f.name, k>>]

\* the call with the chunks stored before the embedding model is looked at
ProcessStartStoring(f) ==
    /\ pc = "idle"
    /\ Len(documents) < MaxDocs
    /\ file' = [name |-> f.name, type |-> f.type]
    /\ entry_len' = Len(documents)
    /\ warned' = {}
    /\ i' = 0
    /\ chunks_added' = 0
    /\ embedding' = NoVector
    /\ IF Rejection(f) # ""
       THEN /\ ret' = Failure(Rejection(f))
            /\ pd_chunks' = <<>>
            /\ pc' = "returned"
            /\ documents' =
                  IF Rejection(f) = "Embedding model not available"
                  THEN documents \o [k \in 1..Len(FileChunks[f]) |->
                                        Entry(f, k - 1, FileChunks[f][k])]
                  ELSE documents
       ELSE /\ ret' = NoReturn
            /\ pd_chunks' = FileChunks[f]
            /\ pc' = "encode"
            /\ UNCHANGED documents
    /\ UNCHANGED <<embeddings, embedding_model, reported>>
    /\ UNCHANGED splitvars
    /\ UNCHANGED callers

\* a call of process_document(file_content, file_name, file_type), up to the
\* chunk loop: either it returns a failure, or it starts the loop
ProcessStart(f) ==
    /\ pc = "idle"
    /\ Len(documents) < MaxDocs
    /\ file' = [name |-> f.name, type |-> f.type]
    /\ entry_len' = Len(documents)
    /\ warned' = {}
    /\ i' = 0
    /\ chunks_added' = 0
    /\ embedding' = NoVector
    /\ IF Rejection(f) # ""
       THEN /\ ret' = Failure(Rejection(f))
            /\ pd_chunks' = <<>>
            /\ pc' = "returned"
       ELSE /\ ret' = NoReturn
            /\ pd_chunks' = FileChunks[f]
            /\ pc' = "encode"
    /\ UNCHANGED <<documents, embeddings, embedding_model, reported>>
    /\ UNCHANGED splitvars
    /\ UNCHANGED callers

\* if chunk.strip(): true of every chunk split_text returns
ChunkToEmbed ==
    /\ pc = "encode"
    /\ i < Len(pd_chunks)
    /\ Strip(TextOf(pd_chunks[i + 1])) # <<>>

\* embedding = self.embedding_model.encode([chunk])[0] answers a vector
EncodeAnswers ==
    /\ ChunkToEmbed
    /\ \E v \in EncodeOutcomes(pd_chunks[i + 1]) \ {Raises} :
          embedding' = v
    /\ pc' = "append_doc"
    /\ UNCHANGED <<documents, embeddings, embedding_model, file, pd_chunks, i,
                   chunks_added, warned, entry_len, reported, ret>>
    /\ UNCHANGED splitvars
    /\ UNCHANGED callers

\* encode raises after the chunk was appended to documents
EncodeRaisesAfterAppend ==
    /\ ChunkToEmbed
    /\ Raises \in EncodeOutcomes(pd_chunks[i + 1])
    /\ documents' = Append(documents, Entry(file, i, pd_chunks[i + 1]))
    /\ warned' = warned \cup {i}
    /\ i' = i + 1
    /\ UNCHANGED <<embeddings, embedding_model, pc, file,
                   pd_chunks, chunks_added, embedding, entry_len, reported, ret>>
    /\ UNCHANGED splitvars
    /\ UNCHANGED callers

\* encode raises and the loop is left (break instead of continue)
EncodeRaisesLeavingLoop ==
    /\ ChunkToEmbed
    /\ Raises \in EncodeOutcomes(pd_chunks[i + 1])
    /\ warned' = warned \cup {i}
    /\ i' = Len(pd_chunks)
    /\ UNCHANGED <<documents, embeddings, embedding_model, pc, file,
                   pd_chunks, chunks_added, embedding, entry_len, reported, ret>>
    /\ UNCHANGED splitvars
    /\ UNCHANGED callers

\* encode raises: except Exception -> st.warning(...); continue
EncodeRaises ==
    /\ ChunkToEmbed
    /\ Raises \in EncodeOutcomes(pd_chunks[i + 1])
    /\ warned' = warned \cup {i}
    /\ i' = i + 1
    /\ UNCHANGED <<documents, embeddings, embedding_model, pc, file,
                   pd_chunks, chunks_added, embedding, entry_len, reported, ret>>
    /\ UNCHANGED splitvars
    /\ UNCHANGED callers

\* the append that puts the new entry in front of the stored ones
AppendDocumentFront ==
    /\ pc = "append_doc"
    /\ documents' = <<Entry(file, i, pd_chunks[i + 1])>> \o documents
    /\ pc' = "append_emb"
    /\ UNCHANGED <<embeddings, embedding_model, file, pd_chunks, i,
                   chunks_added, embedding, warned, entry_len, reported, ret>>
    /\ UNCHANGED splitvars
    /\ UNCHANGED callers

\* the append that first drops the stored entries with the same id
AppendDocumentReplacing ==
    /\ pc = "append_doc"
    /\ documents' = Append(SelectSeq(documents, LAMBDA d : d.id # <<file.name, i>>),
                           Entry(file, i, pd_chunks[i + 1]))
    /\ pc' = "append_emb"
    /\ UNCHANGED <<embeddings, embedding_model, file, pd_chunks, i,
                   chunks_added, embedding, warned, entry_len, reported, ret>>
    /\ UNCHANGED splitvars
    /\ UNCHANGED callers

\* self.documents.append({...})
AppendDocument ==
    /\ pc = "append_doc"
    /\ documents' = Append(documents, Entry(file, i, pd_chunks[i + 1]))
    /\ pc' = "append_emb"
    /\ UNCHANGED <<embeddings, embedding_model, file, pd_chunks, i,
                   chunks_added, embedding, warned, entry_len, reported, ret>>
    /\ UNCHANGED splitvars
    /\ UNCHANGED callers

\* self.embeddings.append(embedding); chunks_added += 1; next chunk
AppendEmbedding ==
    /\ pc = "append_emb"
    /\ embeddings' = Append(embeddings, embedding)
    /\ chunks_added' = chunks_added + 1
    /\ i' = i + 1
    /\ pc' = "encode"
    /\ UNCHANGED <<documents, embedding_model, file, pd_chunks,
                   embedding, warned, entry_len, reported, ret>>
    /\ UNCHANGED splitvars
    /\ UNCHANGED callers

\* the loop is over: log_document_upload(chunk_count=chunks_added), return True
ProcessReturn ==
    /\ pc = "encode"
    /\ i >= Len(pd_chunks)
    /\ reported' = [reported EXCEPT ![file.name] = @ + chunks_added]
    /\ ret' = Success(chunks_added)
    /\ pc' = "returned"
    /\ UNCHANGED <<documents, embeddings, embedding_model, file,
                   pd_chunks, i, chunks_added, embedding, warned, entry_len>>
    /\ UNCHANGED splitvars
    /\ UNCHANGED callers

\* ------------------------------------------------------ search_documents

\* the value search_documents returns: None (with or without an exception
\* caught at line 286), or the results dict
NoResults(q, n, err) ==
    [op |-> "search_documents", query |-> q, n_results |-> n, found |-> FALSE,
     raised |-> err, indices |-> <<>>, documents |-> <<>>, metadatas |-> <<>>,
     similarities |-> <<>>]

\* "distances" holds 1 - similarities[i]; the similarity itself is recorded
Results(q, n, top, sims) ==
    [op |-> "search_documents", query |-> q, n_results |-> n, found |-> TRUE,
     raised |-> FALSE, indices |-> top,
     documents |-> [k \in 1..Len(top) |-> documents[top[k]].text],
     metadatas |-> [k \in 1..Len(top) |->
                      [source |-> documents[top[k]].source,
                       chunk_id |-> documents[top[k]].chunk_id]],
     similarities |-> [k \in 1..Len(top) |-> sims[top[k]]]]

\* what search_documents hands to its caller for a finished call r: None
\* (lines 261 and 288) or the results dict (line 285); the st.error of line
\* 287 is not part of it
ReturnedValue(r) ==
    IF r.found
    THEN [none |-> FALSE, documents |-> r.documents, metadatas |-> r.metadatas,
          similarities |-> r.similarities]
    ELSE [none |-> TRUE]

\* similarities, one per stored embedding
Similarities(qv) == [k \in 1..Len(embeddings) |-> Cosine(qv, embeddings[k])]

\* the search that embeds the query before it looks at the index
SearchDocumentsEncodingFirst(q, n) ==
    /\ pc = "idle"
    /\ IF embedding_model = None
       THEN ret' = NoResults(q, n, FALSE)
       ELSE \E o \in EncodeOutcomes(q) :
              IF o = Raises
              THEN ret' = NoResults(q, n, TRUE)
              ELSE IF documents = <<>>
              THEN ret' = NoResults(q, n, FALSE)
              ELSE \E order \in ArgSorts(Similarities(o)) :
                     ret' = Results(q, n, TopIndices(order, n), Similarities(o))
    /\ pc' = "returned"
    /\ UNCHANGED <<documents, embeddings, embedding_model, reported>>
    /\ UNCHANGED locals
    /\ UNCHANGED splitvars
    /\ UNCHANGED callers

\* search_documents(query, n_results), run between uploads
SearchDocuments(q, n) ==
    /\ pc = "idle"
    /\ IF documents = <<>> \/ embedding_model = None
       THEN ret' = NoResults(q, n, FALSE)
       ELSE \E o \in EncodeOutcomes(q) :
              IF o = Raises
              THEN ret' = NoResults(q, n, TRUE)
              ELSE \E order \in ArgSorts(Similarities(o)) :
                     ret' = Results(q, n, TopIndices(order, n), Similarities(o))
    /\ pc' = "returned"
    /\ UNCHANGED <<documents, embeddings, embedding_model, reported>>
    /\ UNCHANGED locals
    /\ UNCHANGED splitvars
    /\ UNCHANGED callers

\* ------------------------------------------------- the document registry

Sources == {documents[k].source : k \in 1..Len(documents)}

\* list(set([doc["source"] for doc in self.documents])): a set of strings
\* lists its members in an order that string hashing decides
ListsOfSet(S) ==
    {l \in [1..Cardinality(S) -> S] : \A a, b \in 1..Cardinality(S) : a # b => l[a] # l[b]}

GetDocumentList ==
    /\ pc = "idle"
    /\ \E l \in ListsOfSet(Sources) :
          ret' = [op |-> "get_document_list", list |-> l]
    /\ pc' = "returned"
    /\ UNCHANGED <<documents, embeddings, embedding_model, reported>>
    /\ UNCHANGED locals
    /\ UNCHANGED splitvars
    /\ UNCHANGED callers

\* "\n".join(parts)
RECURSIVE JoinLines(_)
JoinLines(parts) ==
    IF parts = <<>> THEN <<>>
    ELSE IF Len(parts) = 1 THEN parts[1]
    ELSE parts[1] \o <<"\n">> \o JoinLines(Tail(parts))

\* the message "Document not found.", kept as one element
NotFound == <<"Document not found.">>

Ellipsis == <<".", ".", ".">>

\* the string get_document_preview(file_name, max_chars) returns
Preview(file_name, max_chars) ==
    LET doc_chunks == SelectSeq(documents, LAMBDA d : d.source = file_name)
        first3     == SubSeq(doc_chunks, 1, IF Len(doc_chunks) > 3 THEN 3
                                            ELSE Len(doc_chunks))
        preview    == JoinLines([k \in 1..Len(first3) |-> TextOf(first3[k].text)])
    IN  IF doc_chunks = <<>> THEN NotFound
        ELSE IF Len(preview) > max_chars
             THEN SubSeq(preview, 1, max_chars) \o Ellipsis
             ELSE preview

GetDocumentPreview(file_name, max_chars) ==
    /\ pc = "idle"
    /\ ret' = [op |-> "get_document_preview", file_name |-> file_name,
               max_chars |-> max_chars, preview |-> Preview(file_name, max_chars)]
    /\ pc' = "returned"
    /\ UNCHANGED <<documents, embeddings, embedding_model, reported>>
    /\ UNCHANGED locals
    /\ UNCHANGED splitvars
    /\ UNCHANGED callers

\* -------------------------------------------------------------- callers

\* the caller takes the returned value (sidebar.py:31-40, chat_tab.py:39-41,
\* documents_tab.py:14-22); the locals of the finished call are gone
Consume ==
    /\ pc = "returned"
    /\ pc' = "idle"
    /\ ret' = NoReturn
    /\ file' = NoFile
    /\ pd_chunks' = <<>>
    /\ i' = 0
    /\ chunks_added' = 0
    /\ embedding' = NoVector
    /\ warned' = {}
    /\ entry_len' = 0
    /\ UNCHANGED <<documents, embeddings, embedding_model, reported>>
    /\ UNCHANGED splitvars
    /\ UNCHANGED callers

\* ---------------------------------------------------------------- Spec

Next ==
    \/ \E f \in Files : ProcessStart(f)
    \/ EncodeAnswers
    \/ EncodeRaises
    \/ AppendDocument
    \/ AppendEmbedding
    \/ ProcessReturn
    \/ \E q \in Queries, n \in TopKs : SearchDocuments(q, n)
    \/ GetDocumentList
    \/ \E n \in PreviewNames, m \in MaxCharsChoices : GetDocumentPreview(n, m)
    \/ Consume

Spec == Init /\ [][Next]_vars

\* =================================================================
\* Properties of split_text (SplitSpec, SplitFairSpec)
\* =================================================================

\* C4: for a text that is not all whitespace, the returned chunks are, in
\* order, stretches of the text; every character of the text that is not
\* whitespace lies in one of them (nothing but whitespace is dropped, neither
\* inside the text nor at its end); and every chunk is non-empty after
\* trimming.
SplitCoversText ==
    (split_pc = "done" /\ Strip(text) # <<>>) =>
        /\ Len(chunks) >= 1
        /\ Len(spans) = Len(chunks)
        /\ \A k \in 1..Len(chunks) :
              /\ chunks[k] = SubSeq(text, spans[k].lo, spans[k].hi)
              /\ Strip(chunks[k]) # <<>>
        /\ \A k \in 1..(Len(chunks) - 1) : spans[k].lo < spans[k + 1].lo
        /\ \A p \in 1..Len(text) :
              text[p] \notin Whitespace =>
                 \E k \in 1..Len(chunks) : spans[k].lo <= p /\ p <= spans[k].hi

\* a finished split of a long text whose first chunk was cut at a marker,
\* before the full window, and that dropped whitespace
SplitCoversWitness ==
    /\ split_pc = "done"
    /\ chunk_size = 11
    /\ Len(chunks) >= 2
    /\ spans[1].hi = 9
    /\ spans[2].lo >= 12

\* C5: split_text terminates: every loop iteration moves the window start
\* strictly forward, never past the text length, and the iteration that finds
\* the start at the text length returns.  (start is a variant bounded by the
\* text length, so the loop runs at most len(text) times.)
SplitTerminates ==
    [][split_pc = "loop" =>
         IF start < Len(text)
         THEN start' > start /\ start' <= Len(text) /\ split_pc' = "loop"
         ELSE split_pc' = "done"]_vars

\* a finished split with the largest allowed overlap and several windows
SplitTerminatesWitness ==
    /\ split_pc = "done"
    /\ chunk_size = 2
    /\ overlap = chunk_size - 1
    /\ Len(chunks) >= 3

\* =================================================================
\* Properties of the index (Spec)
\* =================================================================

\* no call of process_document is in progress
Quiescent == pc \in {"idle", "returned"}

\* C1: whenever no process_document call is in progress, embeddings and
\* documents have the same length and the vector at each position is the one
\* the embedding model computes from the chunk text at that position.
IndexAligned ==
    Quiescent =>
        /\ Len(embeddings) = Len(documents)
        /\ \A k \in 1..Len(documents) :
              embeddings[k] = embedding_model[documents[k].text]

\* an upload has returned success after one of its chunks failed to embed,
\* on top of the chunks of an earlier upload
IndexAlignedWitness ==
    /\ pc = "returned"
    /\ ret.op = "process_document"
    /\ ret.ok
    /\ warned # {}
    /\ entry_len >= 1
    /\ Len(documents) > entry_len

\* the chunk numbers of the finished call that raised no warning, ascending
Embedded == SelectSeq([k \in 1..Len(pd_chunks) |-> k - 1], LAMBDA k : k \notin warned)

\* C6: a successful process_document call has stored exactly the chunks whose
\* embedding did not fail, each with its vector, in order, after the entries
\* that were there before; a chunk whose embedding failed is stored neither as
\* document nor as vector; the chunks after it are processed; and the count
\* reported is the number of chunks appended.
FailedChunkIsSkipped ==
    (pc = "returned" /\ ret.op = "process_document" /\ ret.ok) =>
        /\ ret.count = Len(Embedded)
        /\ Len(documents) = entry_len + ret.count
        /\ Len(embeddings) = entry_len + ret.count
        /\ \A m \in 1..Len(Embedded) :
              /\ documents[entry_len + m] =
                    [text |-> pd_chunks[Embedded[m] + 1], source |-> file.name,
                     chunk_id |-> Embedded[m], id |-> <<file.name, Embedded[m]>>]
              /\ embeddings[entry_len + m] = embedding_model[pd_chunks[Embedded[m] + 1]]

\* the first chunk of a two-chunk file failed and the second was stored
FailedChunkWitness ==
    /\ pc = "returned"
    /\ ret.op = "process_document"
    /\ ret.ok
    /\ warned = {0}
    /\ ret.count = 1
    /\ documents[Len(documents)].chunk_id = 1

\* C7: a process_document call that returns a failure returns one of the
\* reasons, and returns in the step in which it was called, with documents and
\* embeddings as they were: no failure is returned once the chunk loop has
\* started.
FailureLeavesIndex ==
    [][(pc # "returned" /\ pc' = "returned" /\
        ret'.op = "process_document" /\ ~ret'.ok) =>
          /\ pc = "idle"
          /\ ret'.msg \in FailureReasons
          /\ documents' = documents
          /\ embeddings' = embeddings]_vars

\* a failure returned with chunks in the index
FailureWitness ==
    /\ pc = "returned"
    /\ ret.op = "process_document"
    /\ ~ret.ok
    /\ ret.msg = "No text content found in document"
    /\ Len(documents) >= 2

\* the number of stored chunks of a source
ChunkCount(name) == Cardinality({k \in 1..Len(documents) : documents[k].source = name})

\* C8: every step keeps every stored entry, document and vector, at its
\* position; and whenever no upload is in progress the number of chunks of a
\* source is the sum of the counts its successful uploads reported.
AppendOnly ==
    [][/\ Len(documents') >= Len(documents)
       /\ Len(embeddings') >= Len(embeddings)
       /\ \A k \in 1..Len(documents) : documents'[k] = documents[k]
       /\ \A k \in 1..Len(embeddings) : embeddings'[k] = embeddings[k]
       /\ Quiescent' => \A n \in Names : ChunkCount(n)' = reported'[n]]_vars

\* a reader has returned on an index that holds two uploads of one file name
AppendOnlyWitness ==
    /\ pc = "returned"
    /\ ret.op \in {"search_documents", "get_document_list", "get_document_preview"}
    /\ \E a, b \in 1..Len(documents) :
          a < b /\ documents[a].id = documents[b].id

\* a search has returned a ranking
Ranked == pc = "returned" /\ ret.op = "search_documents" /\ ret.found

\* x >= y as floats compare: false when either is nan
Geq(x, y) == ~x.nan /\ ~y.nan /\ x.num * y.den >= y.num * x.den

\* C2: a search with n_results >= 1 on a non-empty index with an available
\* model, whose query was embedded, returns min(n_results, N) results, each
\* with similarity >= that of the next one and >= that of every chunk that
\* was not returned.
SearchReturnsTop ==
    (pc = "returned" /\ ret.op = "search_documents" /\ ret.n_results >= 1 /\
     documents # <<>> /\ embedding_model # None /\ ~ret.raised) =>
        /\ ret.found
        /\ Len(ret.indices) = Min({ret.n_results, Len(documents)})
        /\ \A a \in 1..(Len(ret.indices) - 1) :
              Geq(ret.similarities[a], ret.similarities[a + 1])
        /\ \A a \in 1..Len(ret.indices) :
              \A k \in 1..Len(documents) :
                 (\A b \in 1..Len(ret.indices) : ret.indices[b] # k) =>
                    Geq(ret.similarities[a],
                        Cosine(embedding_model[ret.query], embeddings[k]))

\* C3: a search with n_results <= 0 returns no result, whatever the index
\* holds.
NonPositiveTopKIsEmpty ==
    (pc = "returned" /\ ret.op = "search_documents" /\ ret.n_results <= 0) =>
        (~ret.found \/ ret.documents = <<>>)

\* the sources in the order of their first stored chunk
FirstSeen ==
    LET firsts == SelectSeq([k \in 1..Len(documents) |-> k],
                            LAMBDA k : \A j \in 1..(k - 1) :
                                          documents[j].source # documents[k].source)
    IN  [m \in 1..Len(firsts) |-> documents[firsts[m]].source]

\* C9: get_document_list returns each distinct source once, in the order in
\* which the sources were first stored.
ListIsFirstSeen ==
    (pc = "returned" /\ ret.op = "get_document_list") => ret.list = FirstSeen

\* C10: of two returned chunks with equal similarity, the one inserted earlier
\* is ranked first.
TiesInInsertionOrder ==
    (Ranked /\ ret.n_results >= 1) =>
        \A a, b \in 1..Len(ret.indices) :
           (a < b /\ ~ret.similarities[a].nan /\
            Geq(ret.similarities[a], ret.similarities[b]) /\
            Geq(ret.similarities[b], ret.similarities[a])) =>
               ret.indices[a] < ret.indices[b]

\* C11: every returned chunk whose stored vector has zero norm is returned
\* with similarity 0, not nan, and after every returned chunk of positive
\* similarity.
ZeroNormScoresZero ==
    Ranked =>
        \A a \in 1..Len(ret.indices) :
           Dot(embeddings[ret.indices[a]], embeddings[ret.indices[a]]) = 0 =>
              /\ ~ret.similarities[a].nan
              /\ ret.similarities[a].num = 0
              /\ \A b \in 1..Len(ret.indices) :
                    (~ret.similarities[b].nan /\ ret.similarities[b].num > 0) => b < a

\* C12: a search on an empty index returns the absent result, the same
\* whatever the embedder would answer or raise, and leaves documents,
\* embeddings and the embedding model as they were.
EmptyIndexSearch ==
    [][(pc = "idle" /\ documents = <<>> /\ pc' = "returned" /\
        ret'.op = "search_documents") =>
          /\ ~ret'.found
          /\ ~ret'.raised
          /\ ret'.documents = <<>>
          /\ documents' = <<>>
          /\ embeddings' = embeddings
          /\ embedding_model' = embedding_model]_vars

\* a search has returned on an empty index with a model loaded
EmptyIndexSearchWitness ==
    /\ pc = "returned"
    /\ ret.op = "search_documents"
    /\ documents = <<>>
    /\ embedding_model # None

\* C13: a text shorter than chunk_size that holds a character other than
\* whitespace is split into exactly one chunk: the text without its leading
\* and trailing whitespace.
ShortTextIsOneChunk ==
    (split_pc = "done" /\ Len(text) < chunk_size /\
     \E p \in 1..Len(text) : text[p] \notin Whitespace) =>
        \E a, b \in 1..Len(text) :
           /\ a <= b
           /\ chunks = <<SubSeq(text, a, b)>>
           /\ text[a] \notin Whitespace
           /\ text[b] \notin Whitespace
           /\ \A p \in 1..Len(text) : (p < a \/ p > b) => text[p] \in Whitespace

\* a short text with whitespace on both ends and a marker inside was split
ShortTextWitness ==
    /\ split_pc = "done"
    /\ Len(text) = 5
    /\ chunk_size = 10
    /\ text[1] \in Whitespace
    /\ text[5] \in Whitespace
    /\ text[2] = "."
    /\ text[3] = " "
    /\ Len(chunks) = 1

\* the stored entries of a source with chunk_id >= c, by ascending chunk_id
\* (entries with the same chunk_id in stored order)
RECURSIVE ByChunkIndex(_, _)
ByChunkIndex(name, c) ==
    IF \A k \in 1..Len(documents) :
          documents[k].source = name => documents[k].chunk_id < c
    THEN <<>>
    ELSE SelectSeq(documents, LAMBDA d : d.source = name /\ d.chunk_id = c)
         \o ByChunkIndex(name, c + 1)

\* C14: the preview of a stored source is the text of its first 3 chunks in
\* chunk-index order, joined by newline, unchanged when not longer than
\* max_chars and otherwise cut to max_chars characters followed by "...".
PreviewInChunkOrder ==
    (pc = "returned" /\ ret.op = "get_document_preview" /\
     ret.file_name \in Sources) =>
        LET ordered == ByChunkIndex(ret.file_name, 0)
            first   == SubSeq(ordered, 1, Min({3, Len(ordered)}))
            joined  == JoinLines([k \in 1..Len(first) |-> TextOf(first[k].text)])
        IN  ret.preview = IF Len(joined) <= ret.max_chars THEN joined
                          ELSE SubSeq(joined, 1, ret.max_chars) \o <<".", ".", ".">>

\* C16: when the query could not be embedded or the embedding model is
\* unavailable, the value search_documents returns differs from the value it
\* returns for an empty index.
ErrorIsDistinguished ==
    (pc = "returned" /\ ret.op = "search_documents" /\
     (ret.raised \/ embedding_model = None)) =>
        ReturnedValue(ret) # ReturnedValue(NoResults(ret.query, ret.n_results, FALSE))

\* C17: an iteration whose window ends at actual_end leaves start at
\* actual_end - overlap when that is greater than the start of the window,
\* and at actual_end otherwise.
OverlapIsApplied ==
    [][(split_pc = "loop" /\ start < Len(text)) =>
         LET actual_end == Window(text, start, chunk_size).actual_end
         IN  start' = IF actual_end - overlap > start THEN actual_end - overlap
                      ELSE actual_end]_vars

\* the offsets in the window at which a boundary marker starts at or after
\* 70% of size
MarkersFromSeventyPercent(chunk, size) ==
    {o \in 0..(Len(chunk) - 2) :
        /\ o * 10 >= size * 7
        /\ \E k \in 1..Len(Boundaries) : Slice(chunk, o, o + 2) = Boundaries[k]}

\* C18: a window whose proposed end lies before the end of the text ends
\* right after a boundary marker that starts at or after 70% of chunk_size
\* when there is such a marker (one at exactly 70% included), and at
\* start + chunk_size when there is none.
BoundaryFromSeventyPercent ==
    (split_pc = "loop" /\ start + chunk_size < Len(text)) =>
        LET full == Slice(text, start, start + chunk_size)
            from == MarkersFromSeventyPercent(full, chunk_size)
            w    == Window(text, start, chunk_size)
        IN  IF from = {}
            THEN w.actual_end = start + chunk_size /\ w.chunk = full
            ELSE \E o \in from :
                    w.actual_end = start + o + 2 /\ w.chunk = Slice(full, 0, o + 2)

\* =================================================================
\* The read methods called from a second thread while process_document
\* runs: the object has no lock, so a call of the second thread may take
\* its steps between any two steps of process_document
\* =================================================================

\* the second thread has finished a call; during is the position of
\* process_document when the call first read the lists
ReaderDone(value, error, during) ==
    [pc |-> "done", value |-> value, error |-> error, during |-> during]

\* search_documents up to the ranking (lines 259-274): the guard, the query
\* embedding, one similarity per stored embedding, the top indices
ReaderSearchScore(q, n) ==
    /\ reader.pc = "idle"
    /\ IF documents = <<>> \/ embedding_model = None
       THEN reader' = ReaderDone(NoResults(q, n, FALSE), "", pc)
       ELSE \E o \in EncodeOutcomes(q) :
              IF o = Raises
              THEN reader' = ReaderDone(NoResults(q, n, TRUE), "encode", pc)
              ELSE \E order \in ArgSorts(Similarities(o)) :
                     reader' = [pc |-> "scored", query |-> q, n_results |-> n,
                                similarities |-> Similarities(o),
                                top |-> TopIndices(order, n), during |-> pc]
    /\ UNCHANGED <<staged, cursor, renders>>
    /\ UNCHANGED mainvars
    /\ UNCHANGED splitvars

\* search_documents from the results dict on (lines 276-288): documents is
\* read at the top indices; an index past its end raises IndexError, which
\* the except turns into None
ReaderSearchCollect ==
    /\ reader.pc = "scored"
    /\ reader' =
          IF \E k \in 1..Len(reader.top) : reader.top[k] > Len(documents)
          THEN ReaderDone(NoResults(reader.query, reader.n_results, TRUE),
                          "index", reader.during)
          ELSE ReaderDone(Results(reader.query, reader.n_results, reader.top,
                                  reader.similarities), "", reader.during)
    /\ UNCHANGED <<staged, cursor, renders>>
    /\ UNCHANGED mainvars
    /\ UNCHANGED splitvars

\* get_document_list from the second thread
ReaderList ==
    /\ reader.pc = "idle"
    /\ \E l \in ListsOfSet(Sources) :
          reader' = ReaderDone([op |-> "get_document_list", list |-> l], "", pc)
    /\ UNCHANGED <<staged, cursor, renders>>
    /\ UNCHANGED mainvars
    /\ UNCHANGED splitvars

\* get_document_preview from the second thread
ReaderPreview(file_name, max_chars) ==
    /\ reader.pc = "idle"
    /\ reader' = ReaderDone([op |-> "get_document_preview", file_name |-> file_name,
                             max_chars |-> max_chars,
                             preview |-> Preview(file_name, max_chars)], "", pc)
    /\ UNCHANGED <<staged, cursor, renders>>
    /\ UNCHANGED mainvars
    /\ UNCHANGED splitvars

\* the second thread takes the value
ReaderLeaves ==
    /\ reader.pc = "done"
    /\ reader' = ReaderIdle
    /\ UNCHANGED <<staged, cursor, renders>>
    /\ UNCHANGED mainvars
    /\ UNCHANGED splitvars

\* the arguments of the second thread's calls: the defaults n_results = 3
\* (chat_tab.py:39) and max_chars = 2000 (chat_tab.py:105)
ReaderTopKs == {3}

ReaderMaxChars == {2000}

ConcNext ==
    \/ \E f \in Files : Len(documents) < MaxConcDocs /\ ProcessStart(f)
    \/ EncodeAnswers
    \/ EncodeRaises
    \/ AppendDocument
    \/ AppendEmbedding
    \/ ProcessReturn
    \/ Consume
    \/ \E q \in Queries, n \in ReaderTopKs : ReaderSearchScore(q, n)
    \/ ReaderSearchCollect
    \/ ReaderList
    \/ \E n \in PreviewNames, m \in ReaderMaxChars : ReaderPreview(n, m)
    \/ ReaderLeaves

ConcSpec == Init /\ [][ConcNext]_vars

\* C15: every read call of the second thread starts in a state in which
\* documents and embeddings have the same length: it sees the lists as they
\* were before an append or as they are after it.
ReadersSeePairedLists ==
    [][(reader.pc = "idle" /\ reader'.pc # "idle") =>
          Len(documents) = Len(embeddings)]_vars

\* C19: in every state len(embeddings) <= len(documents) <= len(embeddings)
\* + 1; the top indices of a search are positions of documents; and a search
\* of the second thread, also one that ranked between the two appends of a
\* chunk, ends without an index error and returns every chunk with the
\* similarity of its own vector.
PairingSurvivesInterleaving ==
    /\ Len(embeddings) <= Len(documents)
    /\ Len(documents) <= Len(embeddings) + 1
    /\ reader.pc = "scored" =>
          \A k \in 1..Len(reader.top) : reader.top[k] \in 1..Len(documents)
    /\ (reader.pc = "done" /\ reader.value.op = "search_documents") =>
          /\ reader.error # "index"
          /\ reader.value.found =>
                \A a \in 1..Len(reader.value.indices) :
                   LET d == documents[reader.value.indices[a]]
                   IN  /\ reader.value.documents[a] = d.text
                       /\ reader.value.similarities[a] =
                             Cosine(embedding_model[reader.value.query],
                                    embedding_model[d.text])

\* a search that ranked between the two appends of a chunk has returned
\* chunks
InterleavedSearchWitness ==
    /\ reader.pc = "done"
    /\ reader.value.op = "search_documents"
    /\ reader.during = "append_emb"
    /\ reader.value.found
    /\ Len(reader.value.indices) >= 2

\* =================================================================
\* The sidebar (components/sidebar.py:22-48): every render passes each
\* staged file to process_document, then shows the statistics
\* =================================================================

FileNamed(n) == CHOOSE f \in Files : f.name = n

\* what the uploader holds, in uploader order; it stays staged over the renders
StagedChoices ==
    { <<"A.txt">>, <<"B.txt">>, <<"B.txt", "A.txt">>, <<"A.txt", "B.txt">>,
      <<"B.txt", "E.exe", "B.txt">>, <<"C.pdf", "B.txt">>, <<"D.docx">> }

RenderInit ==
    /\ MainInit
    /\ SplitIdle
    /\ reader = ReaderIdle
    /\ staged \in StagedChoices
    /\ cursor = 0
    /\ renders = 0

\* the loop that skips a file whose name is already indexed
RenderCallOnce ==
    /\ cursor < Len(staged)
    /\ cursor = 0 => renders < MaxRenders
    /\ IF staged[cursor + 1] \in Sources
       THEN /\ pc = "idle"
            /\ pc' = "returned"
            /\ ret' = Success(0)
            /\ UNCHANGED <<documents, embeddings, embedding_model, reported>>
            /\ UNCHANGED locals
            /\ UNCHANGED splitvars
            /\ UNCHANGED callers
       ELSE ProcessStart(FileNamed(staged[cursor + 1]))

\* for uploaded_file in uploaded_files: process_document(...) (lines 25-35)
RenderCall ==
    /\ cursor < Len(staged)
    /\ cursor = 0 => renders < MaxRenders
    /\ ProcessStart(FileNamed(staged[cursor + 1]))

\* st.success / st.error for the file (lines 37-40), on to the next file
RenderTakes ==
    /\ pc = "returned"
    /\ ret.op = "process_document"
    /\ cursor' = cursor + 1
    /\ pc' = "idle"
    /\ ret' = NoReturn
    /\ file' = NoFile
    /\ pd_chunks' = <<>>
    /\ i' = 0
    /\ chunks_added' = 0
    /\ embedding' = NoVector
    /\ warned' = {}
    /\ entry_len' = 0
    /\ UNCHANGED <<documents, embeddings, embedding_model, reported>>
    /\ UNCHANGED <<reader, staged, renders>>
    /\ UNCHANGED splitvars

\* after the loop: unique_docs = len(get_document_list()) (lines 45-48)
RenderStats ==
    /\ cursor = Len(staged)
    /\ GetDocumentList

\* the render is over; the next one starts with the same staged files
RenderDone ==
    /\ pc = "returned"
    /\ ret.op = "get_document_list"
    /\ renders' = renders + 1
    /\ cursor' = 0
    /\ pc' = "idle"
    /\ ret' = NoReturn
    /\ UNCHANGED <<documents, embeddings, embedding_model, reported>>
    /\ UNCHANGED locals
    /\ UNCHANGED <<reader, staged>>
    /\ UNCHANGED splitvars

\* every chunk of the staged files embeds: encode does not raise
RenderNext ==
    \/ RenderCall
    \/ EncodeAnswers
    \/ AppendDocument
    \/ AppendEmbedding
    \/ ProcessReturn
    \/ RenderTakes
    \/ RenderStats
    \/ RenderDone

RenderSpec == RenderInit /\ [][RenderNext]_vars

\* the entries one call of process_document stores for the file named n
StoredBy(n) ==
    LET f == FileNamed(n)
    IN  IF Rejection(f) # "" THEN <<>>
        ELSE [k \in 1..Len(FileChunks[f]) |->
                [text |-> FileChunks[f][k], source |-> n, chunk_id |-> k - 1,
                 id |-> <<n, k - 1>>]]

\* the entries stored when the first m staged files are processed in order
RECURSIVE StoredByPass(_)
StoredByPass(m) ==
    IF m = 0 THEN <<>> ELSE StoredByPass(m - 1) \o StoredBy(staged[m])

\* the entries stored by k whole renders
RECURSIVE StoredByRenders(_)
StoredByRenders(k) ==
    IF k = 0 THEN <<>> ELSE StoredByRenders(k - 1) \o StoredByPass(Len(staged))

\* the staged files of the current render whose call has returned
Passed == IF pc = "returned" /\ ret.op = "process_document" THEN cursor + 1 ELSE cursor

\* C20: whenever no process_document call is in progress the index holds,
\* for every finished render and then for every staged file the current
\* render has passed, in uploader order, the chunks of that file in one
\* block: a file staged over k renders is stored k times; and the list shown
\* after the loop names every stored source once.
RenderReprocessesStaged ==
    /\ Quiescent => documents = StoredByRenders(renders) \o StoredByPass(Passed)
    /\ (pc = "returned" /\ ret.op = "get_document_list") =>
          /\ \A n \in Sources : Cardinality({k \in 1..Len(ret.list) : ret.list[k] = n}) = 1
          /\ \A k \in 1..Len(ret.list) : ret.list[k] \in Sources

\* the second render of a staged two-chunk file has shown its statistics:
\* four chunks of the file are stored and the list names it once
RenderWitness ==
    /\ staged = <<"A.txt">>
    /\ renders = 1
    /\ pc = "returned"
    /\ ret.op = "get_document_list"
    /\ ret.list = <<"A.txt">>
    /\ ChunkCount("A.txt") = 4

====
